---- MODULE Spec2Model ----
(***************************************************************************)
(* Model of peer::ClientAuthenticator (source/peer/client_authenticator.cc)*)
(* and relay::Session (source/relay/session.cc).                           *)
(*                                                                         *)
(* Both objects are driven by a single-threaded event loop, so every       *)
(* handler is one atomic action.  A handler is written as an operator from *)
(* a "world" record (the object's fields plus the collaborators it calls)  *)
(* to the world after the handler returned; the statements of the handler  *)
(* are composed in program order with LET.                                 *)
(***************************************************************************)
EXTENDS Integers, Sequences, FiniteSets, TLC

VARIABLES
    auth,        \* fields of the ClientAuthenticator object
    channel,     \* the base::NetworkChannel handed to start()
    calls,       \* invocations of callback_, each with what the callee can observe
    sent,        \* messages passed to channel_->send(), in order
    trace,       \* successive values assigned to state_
    last_event,  \* the last handler the event loop ran on the authenticator
    relay,       \* fields of the relay::Session object
    socks,       \* the two asio sockets owned by the session and their peers
    ops,         \* per side: the outstanding asynchronous operation
    notified,    \* number of Delegate::onSessionFinished calls
    rlog         \* what the relay did: reads, writes, stop() calls

avars == <<auth, channel, calls, sent, trace, last_event>>
rvars == <<relay, socks, ops, notified, rlog>>
vars  == <<auth, channel, calls, sent, trace, last_event,
           relay, socks, ops, notified, rlog>>

(***************************************************************************)
(* Bounds                                                                  *)
(***************************************************************************)
\* number of bytes each relay peer has to send
MaxData == 2
\* how often the owner calls Session::stop()
MaxStops == 2
\* size of a relay read buffer, scaled down
kBufferSize == 2

(***************************************************************************)
(* Values                                                                  *)
(***************************************************************************)
Null == "null"
Self == "this"

\* base::ByteArray values are kept abstract: Empty, or a named value.
Empty == ""

\* initialisation vectors: a 12 byte one, and one of any other length
Iv12 == "iv12"
IvOther == "iv7"
kIvSize == 12
IvSize(iv) == IF iv = Empty THEN 0 ELSE IF iv = Iv12 THEN 12 ELSE 7

\* proto::Encryption; the ClientHello field is a bitmask of these, kept as a set
ENCRYPTION_AES256_GCM == "AES256_GCM"
ENCRYPTION_CHACHA20_POLY1305 == "CHACHA20_POLY1305"
\* values of ServerHello.encryption that are neither of the two
ENCRYPTION_UNKNOWN == "UNKNOWN"
ENCRYPTION_BOTH == "AES256_GCM|CHACHA20_POLY1305"

IDENTIFY_SRP == "SRP"
IDENTIFY_ANONYMOUS == "ANONYMOUS"

\* ClientAuthenticator::State
States == {"SEND_CLIENT_HELLO", "READ_SERVER_HELLO", "SEND_IDENTIFY",
           "READ_SERVER_KEY_EXCHANGE", "SEND_CLIENT_KEY_EXCHANGE",
           "READ_SESSION_CHALLENGE", "SEND_SESSION_RESPONSE", "FINISHED"}

\* ClientAuthenticator::ErrorCode
ErrorCodes == {"SUCCESS", "NETWORK_ERROR", "PROTOCOL_ERROR", "ACCESS_DENIED",
               "SESSION_DENIED", "UNKNOWN_ERROR"}

\* base::NetworkChannel::ErrorCode carried by a disconnect
ChannelErrors == {"ACCESS_DENIED", "NETWORK_ERROR", "REMOTE_HOST_CLOSED"}

\* a 32 bit mask is the set of its set bits; the model uses bits 0 and 1
Bits == {0, 1}
Masks == SUBSET Bits
BitAnd(x, y) == x \cap y

\* BLAKE2s-256 as a free constructor over the concatenation of its input
Hash(data) == "H(" \o data \o ")"
\* X25519 shared secret of the ephemeral key pair with peer_public_key_
EcdhSecret == "E"
\* SRP client key of calcClientKey
SrpKey == "K"

\* the pinned SRP groups (N, g) by the byte length of N
kSrpNgPair_4096 == <<"N4096", "g5">>
kSrpNgPair_6144 == <<"N6144", "g5">>
kSrpNgPair_8192 == <<"N8192", "g19">>
\* byte length of a modulus value; "X..." are values that are not pinned
NSize(N) ==
    CASE N \in {"N4096", "X4096"} -> 512
      [] N = "N6144" -> 768
      [] N = "N8192" -> 1024
      [] OTHER -> 384


(***************************************************************************)
(* The world a handler of the authenticator runs in                        *)
(***************************************************************************)
World == [a |-> auth, ch |-> channel, calls |-> calls, sent |-> sent, trace |-> trace,
          \* the handler the event loop is running, and state_ when it was entered
          from |-> [name |-> "none", state |-> "none"]]

In(w, handler) == [w EXCEPT !.from = [name |-> handler, state |-> w.a.state_]]

\* state_ = s
SetState(w, s) == [w EXCEPT !.a.state_ = s, !.trace = Append(@, s)]

(***************************************************************************)
(* base::NetworkChannel, as far as the authenticator uses it               *)
(***************************************************************************)
\* channel_->setListener(l)
ChSetListener(w, l) == [w EXCEPT !.ch.listener = l]

\* channel_->pause(): no further message is read from the socket
ChPause(w) == [w EXCEPT !.ch.paused = TRUE]

\* channel_->resume()
ChResume(w) == [w EXCEPT !.ch.paused = FALSE]

\* channel_->send(message): the message is sealed by the encryptor installed
\* at this moment and queued; its completion is reported later
ChSend(w, msg) ==
    [w EXCEPT !.sent = Append(@, [msg |-> msg, sealed_by |-> w.ch.encryptor]),
              !.ch.pending = @ + 1]

\* channel_->setEncryptor(e)
ChSetEncryptor(w, e) == [w EXCEPT !.ch.encryptor = e]

\* channel_->setDecryptor(d)
ChSetDecryptor(w, d) == [w EXCEPT !.ch.decryptor = d]

\* the channel reports an event only to an installed listener, and a channel
\* that was destroyed reports nothing
ChListening == channel.alive /\ channel.listener = Self

\* writes complete, messages arrive and the connection is lost only on a
\* connected channel
ChDelivers == ChListening /\ channel.connected

\* a paused channel reads no message
ChReads == ChDelivers /\ ~channel.paused

\* MessageEncryptorOpenssl / MessageDecryptorOpenssl ::createFor...(key, iv):
\* null unless the key is a 256 bit key and the iv has 12 bytes
NoCipher == [cipher |-> "none", key |-> Empty, iv |-> Empty]
CreateCipher(encryption, key, iv) ==
    IF key = Empty \/ IvSize(iv) # kIvSize
    THEN NoCipher
    ELSE [cipher |-> encryption, key |-> key, iv |-> iv]

(***************************************************************************)
(* ClientAuthenticator                                                     *)
(***************************************************************************)
\* callback_(error_code): the callee observes the code and the authenticator
Callback(w, error_code) ==
    [w EXCEPT !.calls = Append(@,
        [code      |-> error_code,
         from      |-> w.from,
         state     |-> w.a.state_,
         sent      |-> Len(w.sent),
         paused    |-> w.ch.paused,
         listener  |-> w.ch.listener,
         channel_  |-> w.a.channel_,
         encryptor |-> w.ch.encryptor,
         decryptor |-> w.ch.decryptor])]

\* finished() that leaves the listener installed
finishedMutKeepListener(w, error_code) == Callback(ChPause(w), error_code)
\* finished() that reports before it quiesces the channel
finishedMutCallbackFirst(w, error_code) ==
    ChSetListener(ChPause(Callback(w, error_code)), Null)

\* finished() that reports and leaves the channel as it is
finishedMutCallbackOnly(w, error_code) == Callback(w, error_code)
finished(w, error_code) ==
    LET w1 == ChPause(w)
        w2 == ChSetListener(w1, Null)
    IN  Callback(w2, error_code)

\* onSessionKeyChanged() that installs the encryptor before it looks at the
\* decryptor
onSessionKeyChangedMutEncryptorFirst(w) ==
    LET cipher == IF w.a.encryption_ = ENCRYPTION_AES256_GCM
                  THEN ENCRYPTION_AES256_GCM
                  ELSE ENCRYPTION_CHACHA20_POLY1305
        encryptor == CreateCipher(cipher, w.a.session_key_, w.a.encrypt_iv_)
        decryptor == CreateCipher(cipher, w.a.session_key_, w.a.decrypt_iv_)
    IN  IF encryptor = NoCipher
        THEN finished(w, "UNKNOWN_ERROR")
        ELSE IF decryptor = NoCipher
        THEN finished(ChSetEncryptor(w, encryptor), "UNKNOWN_ERROR")
        ELSE ChSetDecryptor(ChSetEncryptor(w, encryptor), decryptor)
\* onSessionKeyChanged() that goes on without ciphers when one cannot be
\* created
onSessionKeyChangedMutIgnoreFailure(w) ==
    LET cipher == IF w.a.encryption_ = ENCRYPTION_AES256_GCM
                  THEN ENCRYPTION_AES256_GCM
                  ELSE ENCRYPTION_CHACHA20_POLY1305
        encryptor == CreateCipher(cipher, w.a.session_key_, w.a.encrypt_iv_)
        decryptor == CreateCipher(cipher, w.a.session_key_, w.a.decrypt_iv_)
    IN  IF encryptor = NoCipher \/ decryptor = NoCipher
        THEN w
        ELSE ChSetDecryptor(ChSetEncryptor(w, encryptor), decryptor)
onSessionKeyChanged(w) ==
    LET cipher == IF w.a.encryption_ = ENCRYPTION_AES256_GCM
                  THEN ENCRYPTION_AES256_GCM
                  ELSE ENCRYPTION_CHACHA20_POLY1305
        encryptor == CreateCipher(cipher, w.a.session_key_, w.a.encrypt_iv_)
        decryptor == CreateCipher(cipher, w.a.session_key_, w.a.decrypt_iv_)
    IN  IF encryptor = NoCipher \/ decryptor = NoCipher
        THEN finished(w, "UNKNOWN_ERROR")
        ELSE ChSetDecryptor(ChSetEncryptor(w, encryptor), decryptor)

\* base::CPUID::hasAesNi() is a property of the machine: cpu_aes
\* crypto names the first step of the key agreement that yields an empty
\* result ("none" when all succeed)
CryptoSteps == {"none", "iv", "key_pair", "session_key", "hash", "public_key"}

\* sendClientHello() that does not refuse an anonymous identity without a
\* pinned key
sendClientHelloMutAllowAnonymous(w, cpu_aes, crypto) ==
    LET encryption == {ENCRYPTION_CHACHA20_POLY1305} \cup
                      (IF cpu_aes THEN {ENCRYPTION_AES256_GCM} ELSE {})
        hello == [type |-> "ClientHello", encryption |-> encryption,
                  identify |-> w.a.identify_, public_key |-> Empty, iv |-> Empty]
    IN  IF w.a.peer_public_key_ # Empty
        THEN
            IF crypto = "iv"
            THEN finished(w, "UNKNOWN_ERROR")
            ELSE
            LET w1 == [w EXCEPT !.a.encrypt_iv_ = Iv12]
            IN  IF crypto \in {"key_pair", "session_key"}
                THEN finished(w1, "UNKNOWN_ERROR")
                ELSE IF crypto = "hash"
                THEN finished([w1 EXCEPT !.a.session_key_ = Empty], "UNKNOWN_ERROR")
                ELSE
                LET w2 == [w1 EXCEPT !.a.session_key_ = Hash(EcdhSecret)]
                IN  IF crypto = "public_key"
                    THEN finished(w2, "UNKNOWN_ERROR")
                    ELSE ChSend(w2, [hello EXCEPT !.public_key = "ephemeral",
                                                  !.iv = w2.a.encrypt_iv_])
        ELSE ChSend(w, hello)
sendClientHello(w, cpu_aes, crypto) ==
    IF w.a.identify_ = IDENTIFY_ANONYMOUS /\ w.a.peer_public_key_ = Empty
    THEN finished(w, "UNKNOWN_ERROR")
    ELSE
    LET encryption == {ENCRYPTION_CHACHA20_POLY1305} \cup
                      (IF cpu_aes THEN {ENCRYPTION_AES256_GCM} ELSE {})
        hello == [type |-> "ClientHello", encryption |-> encryption,
                  identify |-> w.a.identify_, public_key |-> Empty, iv |-> Empty]
    IN  IF w.a.peer_public_key_ # Empty
        THEN
            IF crypto = "iv"
            THEN finished(w, "UNKNOWN_ERROR")
            ELSE
            LET w1 == [w EXCEPT !.a.encrypt_iv_ = Iv12]
            IN  IF crypto \in {"key_pair", "session_key"}
                THEN finished(w1, "UNKNOWN_ERROR")
                ELSE IF crypto = "hash"
                THEN finished([w1 EXCEPT !.a.session_key_ = Empty], "UNKNOWN_ERROR")
                ELSE
                LET w2 == [w1 EXCEPT !.a.session_key_ = Hash(EcdhSecret)]
                IN  IF crypto = "public_key"
                    THEN finished(w2, "UNKNOWN_ERROR")
                    ELSE ChSend(w2, [hello EXCEPT !.public_key = "ephemeral",
                                                  !.iv = w2.a.encrypt_iv_])
        ELSE ChSend(w, hello)

\* start(channel, callback)
start(w, cpu_aes, crypto) ==
    LET w1 == [w EXCEPT !.a.channel_ = "channel", !.a.started = TRUE]
        w2 == ChSetListener(w1, Self)
        w3 == ChResume(w2)
        w4 == SetState(w3, "SEND_CLIENT_HELLO")
    IN  sendClientHello(w4, cpu_aes, crypto)

\* takeChannel()
takeChannel(w) == [w EXCEPT !.a.channel_ = Null]

\* ~ClientAuthenticator() = default: the members are destroyed, and the
\* channel with them when channel_ still owns it
\* a destructor that leaves the channel it owns behind
Authenticator_destroyMutLeakChannel(w) == [w EXCEPT !.a.alive = FALSE]
Authenticator_destroy(w) ==
    [w EXCEPT !.a.alive = FALSE,
              !.ch.alive = IF w.a.channel_ # Null THEN FALSE ELSE @]


\* the buffers the peer can put on the wire; base::parse(buffer, &T) succeeds
\* on the buffers of type T
ServerHellos ==
    [type : {"ServerHello"},
     encryption : {ENCRYPTION_UNKNOWN, ENCRYPTION_AES256_GCM,
                   ENCRYPTION_CHACHA20_POLY1305, ENCRYPTION_BOTH},
     iv : {Empty, Iv12, IvOther}]

\* salt and B by name: their byte length, and whether B is a multiple of N
SaltSize(salt) == IF salt = "s63" THEN 63 ELSE 64
BSize(B) == IF B = "B127" THEN 127 ELSE 128
BModNIsZero(B) == B = "B0"

ServerKeyExchanges ==
    [type : {"SrpServerKeyExchange"},
     number : {"N4096", "N6144", "N8192", "X4096", "N3072"},
     generator : {"g5", "g19"},
     salt : {"s63", "s64"},
     b : {"B127", "B0", "B"},
     iv : {Empty, Iv12}]

Versions == {<<0, 0, 0>>, <<2, 1, 0>>}

SessionChallenges ==
    [type : {"SessionChallenge"}, session_types : Masks, version : Versions]

Garbage == [type |-> "garbage"]

Buffers == ServerHellos \cup ServerKeyExchanges \cup SessionChallenges \cup {Garbage}

parse(buffer, type) == buffer.type = type

\* verifyNg() that compares the modulus only
verifyNgMutIgnoreGenerator(N, g) ==
    CASE NSize(N) = 512 -> ~(N # kSrpNgPair_4096[1])
      [] NSize(N) = 768 -> ~(N # kSrpNgPair_6144[1])
      [] NSize(N) = 1024 -> ~(N # kSrpNgPair_8192[1])
      [] OTHER -> FALSE
verifyNg(N, g) ==
    CASE NSize(N) = 512 ->
            ~(N # kSrpNgPair_4096[1] \/ g # kSrpNgPair_4096[2])
      [] NSize(N) = 768 ->
            ~(N # kSrpNgPair_6144[1] \/ g # kSrpNgPair_6144[2])
      [] NSize(N) = 1024 ->
            ~(N # kSrpNgPair_8192[1] \/ g # kSrpNgPair_8192[2])
      [] OTHER -> FALSE

\* the result of a read...() step: the world and the returned bool
Ret(w, ok) == [w |-> w, ok |-> ok]

\* readServerHello() that takes any value of the encryption field
readServerHelloMutAnyCipher(w, buffer) ==
    IF ~parse(buffer, "ServerHello")
    THEN Ret(finished(w, "PROTOCOL_ERROR"), FALSE)
    ELSE
    LET w1 == [w EXCEPT !.a.encryption_ = buffer.encryption]
        w2 == [w1 EXCEPT !.a.decrypt_iv_ = buffer.iv]
    IN  IF (w2.a.session_key_ = Empty) # (w2.a.decrypt_iv_ = Empty)
        THEN Ret(finished(w2, "PROTOCOL_ERROR"), FALSE)
        ELSE IF w2.a.session_key_ # Empty
             THEN Ret(onSessionKeyChanged(w2), TRUE)
             ELSE Ret(w2, TRUE)
\* readServerHello() that does not compare the presence of the two ivs
readServerHelloMutNoPresenceCheck(w, buffer) ==
    IF ~parse(buffer, "ServerHello")
    THEN Ret(finished(w, "PROTOCOL_ERROR"), FALSE)
    ELSE
    LET w1 == [w EXCEPT !.a.encryption_ = buffer.encryption]
    IN  IF w1.a.encryption_ \notin {ENCRYPTION_AES256_GCM, ENCRYPTION_CHACHA20_POLY1305}
        THEN Ret(finished(w1, "PROTOCOL_ERROR"), FALSE)
        ELSE
        LET w2 == [w1 EXCEPT !.a.decrypt_iv_ = buffer.iv]
        IN  IF w2.a.session_key_ # Empty
            THEN Ret(onSessionKeyChanged(w2), TRUE)
            ELSE Ret(w2, TRUE)
readServerHello(w, buffer) ==
    IF ~parse(buffer, "ServerHello")
    THEN Ret(finished(w, "PROTOCOL_ERROR"), FALSE)
    ELSE
    LET w1 == [w EXCEPT !.a.encryption_ = buffer.encryption]
    IN  IF w1.a.encryption_ \notin {ENCRYPTION_AES256_GCM, ENCRYPTION_CHACHA20_POLY1305}
        THEN Ret(finished(w1, "PROTOCOL_ERROR"), FALSE)
        ELSE
        LET w2 == [w1 EXCEPT !.a.decrypt_iv_ = buffer.iv]
        IN  IF (w2.a.session_key_ = Empty) # (w2.a.decrypt_iv_ = Empty)
            THEN Ret(finished(w2, "PROTOCOL_ERROR"), FALSE)
            ELSE IF w2.a.session_key_ # Empty
                 THEN Ret(onSessionKeyChanged(w2), TRUE)
                 ELSE Ret(w2, TRUE)

sendIdentify(w) ==
    ChSend(w, [type |-> "SrpIdentify", username |-> w.a.username_])

\* rnd_iv: what base::Random::byteArray(kIvSize) returns;
\* key_valid: whether calcClientKey yields a valid BigNum
\* readServerKeyExchange() that stores the fields of the message before it
\* validates their sizes
readServerKeyExchangeMutStoreFirst(w, buffer, rnd_iv, key_valid) ==
    IF ~parse(buffer, "SrpServerKeyExchange")
    THEN Ret(finished(w, "PROTOCOL_ERROR"), FALSE)
    ELSE
    LET w0 == [w EXCEPT !.a.N_ = buffer.number,
                        !.a.g_ = buffer.generator,
                        !.a.s_ = buffer.salt,
                        !.a.B_ = buffer.b,
                        !.a.decrypt_iv_ = buffer.iv]
    IN  IF SaltSize(buffer.salt) < 64 \/ BSize(buffer.b) < 128
        THEN Ret(finished(w0, "PROTOCOL_ERROR"), FALSE)
        ELSE IF ~verifyNg(buffer.number, buffer.generator)
        THEN Ret(finished(w0, "PROTOCOL_ERROR"), FALSE)
        ELSE
        LET w1 == [w0 EXCEPT !.a.a_ = "a",
                             !.a.A_ = "A",
                             !.a.encrypt_iv_ = rnd_iv]
        IN  IF BModNIsZero(w1.a.B_)
            THEN Ret(w1, FALSE)
            ELSE IF ~key_valid
            THEN Ret(w1, FALSE)
            ELSE
            LET data == (IF w1.a.session_key_ # Empty THEN w1.a.session_key_ ELSE Empty)
                        \o SrpKey
            IN  Ret([w1 EXCEPT !.a.session_key_ = Hash(data)], TRUE)
\* readServerKeyExchange() that hashes the SRP key alone
readServerKeyExchangeMutNoMixing(w, buffer, rnd_iv, key_valid) ==
    IF ~parse(buffer, "SrpServerKeyExchange")
    THEN Ret(finished(w, "PROTOCOL_ERROR"), FALSE)
    ELSE IF SaltSize(buffer.salt) < 64 \/ BSize(buffer.b) < 128
    THEN Ret(finished(w, "PROTOCOL_ERROR"), FALSE)
    ELSE IF ~verifyNg(buffer.number, buffer.generator)
    THEN Ret(finished(w, "PROTOCOL_ERROR"), FALSE)
    ELSE
    LET w1 == [w EXCEPT !.a.N_ = buffer.number,
                        !.a.g_ = buffer.generator,
                        !.a.s_ = buffer.salt,
                        !.a.B_ = buffer.b,
                        !.a.decrypt_iv_ = buffer.iv,
                        !.a.a_ = "a",
                        !.a.A_ = "A",
                        !.a.encrypt_iv_ = rnd_iv]
    IN  IF BModNIsZero(w1.a.B_)
        THEN Ret(w1, FALSE)
        ELSE IF ~key_valid
        THEN Ret(w1, FALSE)
        ELSE Ret([w1 EXCEPT !.a.session_key_ = Hash(SrpKey)], TRUE)
readServerKeyExchange(w, buffer, rnd_iv, key_valid) ==
    IF ~parse(buffer, "SrpServerKeyExchange")
    THEN Ret(finished(w, "PROTOCOL_ERROR"), FALSE)
    ELSE IF SaltSize(buffer.salt) < 64 \/ BSize(buffer.b) < 128
    THEN Ret(finished(w, "PROTOCOL_ERROR"), FALSE)
    ELSE IF ~verifyNg(buffer.number, buffer.generator)
    THEN Ret(finished(w, "PROTOCOL_ERROR"), FALSE)
    ELSE
    LET w1 == [w EXCEPT !.a.N_ = buffer.number,
                        !.a.g_ = buffer.generator,
                        !.a.s_ = buffer.salt,
                        !.a.B_ = buffer.b,
                        !.a.decrypt_iv_ = buffer.iv,
                        !.a.a_ = "a",
                        !.a.A_ = "A",
                        !.a.encrypt_iv_ = rnd_iv]
    IN  IF BModNIsZero(w1.a.B_)
        THEN Ret(w1, FALSE)
        ELSE IF ~key_valid
        THEN Ret(w1, FALSE)
        ELSE
        LET data == (IF w1.a.session_key_ # Empty THEN w1.a.session_key_ ELSE Empty)
                    \o SrpKey
        IN  Ret([w1 EXCEPT !.a.session_key_ = Hash(data)], TRUE)

sendClientKeyExchange(w) ==
    ChSend(w, [type |-> "SrpClientKeyExchange", a |-> w.a.A_, iv |-> w.a.encrypt_iv_])

\* readSessionChallenge() that records the version before it looks at the
\* session types
readSessionChallengeMutRecordFirst(w, buffer) ==
    IF ~parse(buffer, "SessionChallenge")
    THEN Ret(finished(w, "PROTOCOL_ERROR"), FALSE)
    ELSE
    LET w1 == [w EXCEPT !.a.peer_version_ = buffer.version]
    IN  IF BitAnd(buffer.session_types, w.a.session_type_) = {}
        THEN Ret(finished(w1, "SESSION_DENIED"), FALSE)
        ELSE Ret(w1, TRUE)
readSessionChallenge(w, buffer) ==
    IF ~parse(buffer, "SessionChallenge")
    THEN Ret(finished(w, "PROTOCOL_ERROR"), FALSE)
    ELSE IF BitAnd(buffer.session_types, w.a.session_type_) = {}
    THEN Ret(finished(w, "SESSION_DENIED"), FALSE)
    ELSE Ret([w EXCEPT !.a.peer_version_ = buffer.version], TRUE)

\* sendSessionResponse() that sends the response twice
sendSessionResponseMutTwice(w) ==
    LET msg == [type |-> "SessionResponse", session_type |-> w.a.session_type_]
    IN  ChSend(ChSend(w, msg), msg)
sendSessionResponse(w) ==
    ChSend(w, [type |-> "SessionResponse", session_type |-> w.a.session_type_])

\* onConnected(): NOTREACHED(), which does nothing in a release build
onConnected(w) == w

onDisconnectedMutAlwaysNetwork(w, error_code) == finished(w, "NETWORK_ERROR")

onDisconnected(w, error_code) ==
    LET result == IF error_code = "ACCESS_DENIED" THEN "ACCESS_DENIED"
                                                   ELSE "NETWORK_ERROR"
    IN  finished(w, result)

\* onMessageReceived() that goes on with the SRP identification whatever
\* identify_ is
onMessageReceivedMutAlwaysIdentify(w, buffer, rnd_iv, key_valid) ==
    CASE w.a.state_ = "READ_SERVER_HELLO" ->
            LET r == readServerHello(w, buffer)
            IN  IF r.ok
                THEN sendIdentify(SetState(r.w, "SEND_IDENTIFY"))
                ELSE r.w
      [] w.a.state_ = "READ_SERVER_KEY_EXCHANGE" ->
            LET r == readServerKeyExchange(w, buffer, rnd_iv, key_valid)
            IN  IF r.ok
                THEN sendClientKeyExchange(SetState(r.w, "SEND_CLIENT_KEY_EXCHANGE"))
                ELSE r.w
      [] w.a.state_ = "READ_SESSION_CHALLENGE" ->
            LET r == readSessionChallenge(w, buffer)
            IN  IF r.ok
                THEN sendSessionResponse(SetState(r.w, "SEND_SESSION_RESPONSE"))
                ELSE r.w
      [] OTHER -> w
onMessageReceived(w, buffer, rnd_iv, key_valid) ==
    CASE w.a.state_ = "READ_SERVER_HELLO" ->
            LET r == readServerHello(w, buffer)
            IN  IF r.ok
                THEN IF r.w.a.identify_ = IDENTIFY_ANONYMOUS
                     THEN SetState(r.w, "READ_SESSION_CHALLENGE")
                     ELSE sendIdentify(SetState(r.w, "SEND_IDENTIFY"))
                ELSE r.w
      [] w.a.state_ = "READ_SERVER_KEY_EXCHANGE" ->
            LET r == readServerKeyExchange(w, buffer, rnd_iv, key_valid)
            IN  IF r.ok
                THEN sendClientKeyExchange(SetState(r.w, "SEND_CLIENT_KEY_EXCHANGE"))
                ELSE r.w
      [] w.a.state_ = "READ_SESSION_CHALLENGE" ->
            LET r == readSessionChallenge(w, buffer)
            IN  IF r.ok
                THEN sendSessionResponse(SetState(r.w, "SEND_SESSION_RESPONSE"))
                ELSE r.w
      \* NOTREACHED()
      [] OTHER -> w

\* onMessageWritten() that takes the SessionResponse for sent as soon as the
\* ClientKeyExchange is
onMessageWrittenMutEarlySuccess(w) ==
    CASE w.a.state_ = "SEND_CLIENT_HELLO" -> SetState(w, "READ_SERVER_HELLO")
      [] w.a.state_ = "SEND_IDENTIFY" -> SetState(w, "READ_SERVER_KEY_EXCHANGE")
      [] w.a.state_ \in {"SEND_CLIENT_KEY_EXCHANGE", "SEND_SESSION_RESPONSE"} ->
            finished(SetState(w, "FINISHED"), "SUCCESS")
      [] OTHER -> w

\* onMessageWritten() that does not rotate the keys once the ClientKeyExchange
\* is written
onMessageWrittenMutNoRotation(w) ==
    CASE w.a.state_ = "SEND_CLIENT_HELLO" -> SetState(w, "READ_SERVER_HELLO")
      [] w.a.state_ = "SEND_IDENTIFY" -> SetState(w, "READ_SERVER_KEY_EXCHANGE")
      [] w.a.state_ = "SEND_CLIENT_KEY_EXCHANGE" -> SetState(w, "READ_SESSION_CHALLENGE")
      [] w.a.state_ = "SEND_SESSION_RESPONSE" ->
            finished(SetState(w, "FINISHED"), "SUCCESS")
      [] OTHER -> w
onMessageWritten(w) ==
    CASE w.a.state_ = "SEND_CLIENT_HELLO" -> SetState(w, "READ_SERVER_HELLO")
      [] w.a.state_ = "SEND_IDENTIFY" -> SetState(w, "READ_SERVER_KEY_EXCHANGE")
      [] w.a.state_ = "SEND_CLIENT_KEY_EXCHANGE" ->
            onSessionKeyChanged(SetState(w, "READ_SESSION_CHALLENGE"))
      [] w.a.state_ = "SEND_SESSION_RESPONSE" ->
            finished(SetState(w, "FINISHED"), "SUCCESS")
      [] OTHER -> w


(***************************************************************************)
(* relay::Session                                                          *)
(***************************************************************************)
kNumberOfSides == 2
Sides == 0 .. (kNumberOfSides - 1)

\* the bytes the peer behind socket i sends, each byte distinct
Stream(i) == [k \in 1 .. MaxData |-> <<i, k>>]

Min(x, y) == IF x < y THEN x ELSE y
Take(seq, n) == SubSeq(seq, 1, n)
Drop(seq, n) == SubSeq(seq, n + 1, Len(seq))

NoOp == [kind |-> "none", phase |-> "none", ec |-> "ok", n |-> 0]

RWorld == [r |-> relay, socks |-> socks, ops |-> ops, notified |-> notified, rlog |-> rlog]

\* a write that goes back to the socket the bytes came from
OpSocketMutSame(i, kind) == i

\* the socket an operation of side i works on
OpSocket(i, kind) ==
    IF kind = "read" THEN i ELSE (i + kNumberOfSides - 1) % kNumberOfSides

\* socket_[i].cancel(); socket_[i].close(): every operation still pending on
\* the socket completes with operation_aborted; an operation that already
\* completed keeps its result
SocketCancelClose(rw, i) ==
    [rw EXCEPT
        !.socks[i].open = FALSE,
        !.socks[i].cancels = @ + 1,
        !.socks[i].closes = @ + 1,
        !.ops = [s \in Sides |->
                    IF /\ rw.ops[s].phase = "pending"
                       /\ OpSocket(s, rw.ops[s].kind) = i
                    THEN [rw.ops[s] EXCEPT !.phase = "ready", !.ec = "operation_aborted", !.n = 0]
                    ELSE rw.ops[s]]]

\* stop() without the guard on delegate_
stopMutNoGuard(rw) ==
    SocketCancelClose(SocketCancelClose([rw EXCEPT !.r.delegate_ = Null], 0), 1)

stop(rw) ==
    IF rw.r.delegate_ = Null
    THEN rw
    ELSE LET rw1 == [rw EXCEPT !.r.delegate_ = Null]
         IN  SocketCancelClose(SocketCancelClose(rw1, 0), 1)

\* onErrorOccurred() that notifies without looking at delegate_
onErrorOccurredMutAlwaysNotify(rw) ==
    stop([rw EXCEPT !.notified = @ + 1, !.rlog.errors = @ + 1])

onErrorOccurred(rw) ==
    LET rw0 == [rw EXCEPT !.rlog.errors = @ + 1]
        rw1 == IF rw0.r.delegate_ # Null
               THEN [rw0 EXCEPT !.notified = @ + 1]
               ELSE rw0
    IN  stop(rw1)

\* socket_[source].async_read_some(buffer_[source], handler)
doReadSome(rw, source) ==
    [rw EXCEPT !.ops[source] =
        IF rw.socks[source].open
        THEN [kind |-> "read", phase |-> "pending", ec |-> "ok", n |-> 0]
        ELSE [kind |-> "read", phase |-> "ready", ec |-> "bad_descriptor", n |-> 0],
               \* an operation on buffer_[source] is still outstanding
               !.rlog.overlap[source] = @ \/ rw.ops[source] # NoOp]

\* asio::async_write(socket_[(source + kNumberOfSides - 1) % kNumberOfSides],
\*                   buffer_[source][0 .. bytes_transferred), handler)
doWrite(rw, source, bytes_transferred) ==
    [rw EXCEPT !.ops[source] =
        IF rw.socks[OpSocket(source, "write")].open
        THEN [kind |-> "write", phase |-> "pending", ec |-> "ok", n |-> bytes_transferred]
        ELSE [kind |-> "write", phase |-> "ready", ec |-> "bad_descriptor", n |-> 0],
               !.rlog.overlap[source] = @ \/ rw.ops[source] # NoOp]

\* a read handler that forgets to count
readHandlerMutNoCount(rw, source, error_code, bytes_transferred) ==
    IF error_code # "ok"
    THEN IF error_code # "operation_aborted" THEN onErrorOccurred(rw) ELSE rw
    ELSE doWrite([rw EXCEPT !.rlog.read[source] =
                      @ \o Take(rw.r.buffer_[source], bytes_transferred)],
                 source, bytes_transferred)

\* the completion handler of async_read_some
readHandler(rw, source, error_code, bytes_transferred) ==
    IF error_code # "ok"
    THEN IF error_code # "operation_aborted" THEN onErrorOccurred(rw) ELSE rw
    ELSE
    LET rw1 == [rw EXCEPT
                  !.r.bytes_transferred_ = @ + bytes_transferred,
                  !.rlog.read[source] = @ \o Take(rw.r.buffer_[source], bytes_transferred)]
    IN  doWrite(rw1, source, bytes_transferred)

\* the completion handler of async_write
\* a write handler that takes a cancelled write for an error
writeHandlerMutAbortIsError(rw, source, error_code) ==
    IF error_code # "ok"
    THEN onErrorOccurred([rw EXCEPT !.rlog.wfail[source] = TRUE])
    ELSE doReadSome(rw, source)
writeHandler(rw, source, error_code) ==
    IF error_code # "ok"
    THEN LET rw1 == [rw EXCEPT !.rlog.wfail[source] = TRUE]
         IN  IF error_code # "operation_aborted" THEN onErrorOccurred(rw1) ELSE rw1
    ELSE doReadSome(rw, source)

\* start(delegate)
\* start() that arms the reads twice
Session_startMutArmsTwice(rw, delegate) ==
    LET rw1 == [rw EXCEPT !.r.delegate_ = delegate, !.r.started = TRUE]
    IN  doReadSome(doReadSome(doReadSome(doReadSome(rw1, 0), 1), 0), 1)
Session_start(rw, delegate) ==
    LET rw1 == [rw EXCEPT !.r.delegate_ = delegate, !.r.started = TRUE]
    IN  doReadSome(doReadSome(rw1, 0), 1)


\* ~Session(): stop(), then the members are destroyed, the sockets with them
Session_destroy(rw) ==
    LET rw1 == stop(rw)
        rw2 == [rw1 EXCEPT !.r.alive = FALSE,
                           !.socks[0].open = FALSE,
                           !.socks[1].open = FALSE]
    IN  [rw2 EXCEPT !.ops = [s \in Sides |->
            IF rw2.ops[s].phase = "pending"
            THEN [rw2.ops[s] EXCEPT !.phase = "ready", !.ec = "operation_aborted", !.n = 0]
            ELSE rw2.ops[s]]]

(***************************************************************************)
(* Initial state: both objects constructed, nothing started                *)
(***************************************************************************)
Init ==
    /\ auth = [alive |-> TRUE,
               started |-> FALSE,
               state_ |-> "SEND_CLIENT_HELLO",
               channel_ |-> Null,
               identify_ |-> IDENTIFY_SRP,
               peer_public_key_ |-> Empty,
               username_ |-> Empty,
               password_ |-> Empty,
               session_type_ |-> {},
               encryption_ |-> ENCRYPTION_UNKNOWN,
               encrypt_iv_ |-> Empty,
               decrypt_iv_ |-> Empty,
               session_key_ |-> Empty,
               N_ |-> Empty, g_ |-> Empty, s_ |-> Empty, B_ |-> Empty,
               a_ |-> Empty, A_ |-> Empty,
               peer_version_ |-> <<0, 0, 0>>]
    /\ channel = [alive |-> TRUE,
                  listener |-> Null, paused |-> TRUE, connected |-> TRUE,
                  pending |-> 0, encryptor |-> NoCipher, decryptor |-> NoCipher]
    /\ calls = <<>>
    /\ sent = <<>>
    /\ trace = <<>>
    /\ last_event = [name |-> "none", state |-> "none", arg |-> "none",
                     all |-> {}, version |-> <<>>]
    /\ relay = [started |-> FALSE, alive |-> TRUE, ub |-> FALSE,
                delegate_ |-> Null, bytes_transferred_ |-> 0,
                buffer_ |-> [i \in Sides |-> [k \in 1 .. kBufferSize |-> <<i, 0>>]]]
    /\ socks = [i \in Sides |-> [open |-> TRUE, cancels |-> 0, closes |-> 0,
                                 incoming |-> Stream(i), written |-> <<>>]]
    /\ ops = [i \in Sides |-> NoOp]
    /\ notified = 0
    /\ rlog = [read |-> [i \in Sides |-> <<>>],
               wfail |-> [i \in Sides |-> FALSE],
               overlap |-> [i \in Sides |-> FALSE],
               delegate |-> Null,
               errors |-> 0, stops |-> 0]

(***************************************************************************)
(* Actions of the authenticator                                            *)
(***************************************************************************)
Commit(w) ==
    /\ auth' = w.a
    /\ channel' = w.ch
    /\ calls' = w.calls
    /\ sent' = w.sent
    /\ trace' = w.trace

SetPeerPublicKey ==
    /\ auth.alive
    /\ ~auth.started
    /\ \E public_key \in {Empty, "pk"} : auth' = [auth EXCEPT !.peer_public_key_ = public_key]
    /\ UNCHANGED <<channel, calls, sent, trace, last_event, rvars>>

SetIdentify ==
    /\ auth.alive
    /\ ~auth.started
    /\ \E identify \in {IDENTIFY_SRP, IDENTIFY_ANONYMOUS} :
          auth' = [auth EXCEPT !.identify_ = identify]
    /\ UNCHANGED <<channel, calls, sent, trace, last_event, rvars>>

SetUserName ==
    /\ auth.alive
    /\ ~auth.started
    /\ auth' = [auth EXCEPT !.username_ = "alice"]
    /\ UNCHANGED <<channel, calls, sent, trace, last_event, rvars>>

SetPassword ==
    /\ auth.alive
    /\ ~auth.started
    /\ auth' = [auth EXCEPT !.password_ = "secret"]
    /\ UNCHANGED <<channel, calls, sent, trace, last_event, rvars>>

SetSessionType ==
    /\ auth.alive
    /\ ~auth.started
    /\ \E session_type \in Masks : auth' = [auth EXCEPT !.session_type_ = session_type]
    /\ UNCHANGED <<channel, calls, sent, trace, last_event, rvars>>

Start ==
    /\ auth.alive
    /\ ~auth.started
    /\ \E cpu_aes \in BOOLEAN, crypto \in CryptoSteps :
          /\ (auth.peer_public_key_ = Empty => crypto = "none")
          /\ Commit(start(In(World, "start"), cpu_aes, crypto))
          /\ last_event' = [name |-> "start", state |-> auth.state_, arg |-> "none",
                     all |-> {}, version |-> <<>>]
    /\ UNCHANGED rvars

\* the channel reports the completion of the oldest queued send
MessageWritten ==
    /\ ChDelivers
    /\ channel.pending > 0
    /\ Commit(onMessageWritten(In([World EXCEPT !.ch.pending = @ - 1], "onMessageWritten")))
    /\ last_event' = [name |-> "onMessageWritten", state |-> auth.state_, arg |-> "none",
                     all |-> {}, version |-> <<>>]
    /\ UNCHANGED rvars

\* What is wrong with a buffer the peer sent, told from the buffer alone (and
\* from what the client sent before): the first defect in the order of the
\* protocol description, "none" for a buffer a conforming peer may send.
Defect(a, buffer, key_valid) ==
    CASE buffer.type = "garbage" -> "parse"
      [] buffer.type = "ServerHello" ->
            IF buffer.encryption \notin {ENCRYPTION_AES256_GCM, ENCRYPTION_CHACHA20_POLY1305}
            THEN "cipher"
            ELSE IF (a.peer_public_key_ = Empty) # (buffer.iv = Empty)
            THEN "iv_presence"
            ELSE IF buffer.iv = IvOther THEN "iv_size" ELSE "none"
      [] buffer.type = "SrpServerKeyExchange" ->
            IF buffer.salt = "s63" \/ buffer.b = "B127" THEN "size"
            ELSE IF <<buffer.number, buffer.generator>> \notin
                        {<<"N4096", "g5">>, <<"N6144", "g5">>, <<"N8192", "g19">>}
            THEN "group"
            ELSE IF buffer.b = "B0" THEN "B_mod_N"
            ELSE IF ~key_valid THEN "client_key"
            ELSE "none"
      [] buffer.type = "SessionChallenge" ->
            IF buffer.session_types \cap a.session_type_ = {} THEN "session_type"
                                                               ELSE "none"

\* Every defect of the buffer, not only the first
Defects(a, buffer, key_valid) ==
    CASE buffer.type = "garbage" -> {"parse"}
      [] buffer.type = "ServerHello" ->
            (IF buffer.encryption \notin {ENCRYPTION_AES256_GCM,
                                          ENCRYPTION_CHACHA20_POLY1305}
             THEN {"cipher"} ELSE {})
            \cup (IF (a.peer_public_key_ = Empty) # (buffer.iv = Empty)
                  THEN {"iv_presence"} ELSE {})
            \cup (IF buffer.iv = IvOther THEN {"iv_size"} ELSE {})
      [] buffer.type = "SrpServerKeyExchange" ->
            (IF buffer.salt = "s63" THEN {"salt_size"} ELSE {})
            \cup (IF buffer.b = "B127" THEN {"B_size"} ELSE {})
            \cup (IF <<buffer.number, buffer.generator>> \notin
                         {<<"N4096", "g5">>, <<"N6144", "g5">>, <<"N8192", "g19">>}
                  THEN {"group"} ELSE {})
            \cup (IF buffer.b = "B0" THEN {"B_mod_N"} ELSE {})
            \cup (IF ~key_valid THEN {"client_key"} ELSE {})
      [] buffer.type = "SessionChallenge" ->
            IF buffer.session_types \cap a.session_type_ = {} THEN {"session_type"}
                                                               ELSE {}

\* the channel reports a message of the peer.  A buffer of another type than
\* the one the state parses fails to parse like Garbage does, and a buffer
\* that arrives in a state that reads nothing is dropped whatever it is.
Expected(state) ==
    CASE state = "READ_SERVER_HELLO" -> ServerHellos
      [] state = "READ_SERVER_KEY_EXCHANGE" -> ServerKeyExchanges
      [] state = "READ_SESSION_CHALLENGE" -> SessionChallenges
      [] OTHER -> {}

MessageReceived ==
    /\ ChReads
    /\ \E buffer \in Expected(auth.state_) \cup {Garbage},
          rnd_iv \in {Iv12, Empty}, key_valid \in BOOLEAN :
          \* the random iv and the client key exist only for a buffer that
          \* passed the checks before them
          /\ (\/ auth.state_ # "READ_SERVER_KEY_EXCHANGE"
              \/ Defect(auth, buffer, TRUE) \in {"parse", "size", "group"})
                => rnd_iv = Iv12
          /\ (\/ auth.state_ # "READ_SERVER_KEY_EXCHANGE"
              \/ Defect(auth, buffer, TRUE) # "none")
                => key_valid
          /\ Commit(onMessageReceived(In(World, "onMessageReceived"), buffer, rnd_iv, key_valid))
          /\ last_event' = [name |-> "onMessageReceived", state |-> auth.state_,
                            arg |-> Defect(auth, buffer, key_valid),
                            all |-> Defects(auth, buffer, key_valid),
                            version |-> IF buffer.type = "SessionChallenge"
                                        THEN buffer.version ELSE <<>>]
    /\ UNCHANGED rvars

\* the channel reports the loss of the connection
Disconnected ==
    /\ ChDelivers
    /\ \E error_code \in ChannelErrors :
          /\ Commit(onDisconnected(In([World EXCEPT !.ch.connected = FALSE], "onDisconnected"),
                                   error_code))
          /\ last_event' = [name |-> "onDisconnected", state |-> auth.state_,
                            arg |-> error_code, all |-> {}, version |-> <<>>]
    /\ UNCHANGED rvars

\* the channel reports that it is connected: on a channel that lost its
\* connection when it is connected again, on a connected channel when it
\* reports what it should not
Connected ==
    /\ ChListening
    /\ Commit(onConnected(In([World EXCEPT !.ch.connected = TRUE], "onConnected")))
    /\ last_event' = [name |-> "onConnected", state |-> auth.state_, arg |-> "none",
                      all |-> {}, version |-> <<>>]
    /\ UNCHANGED rvars

\* the owner reclaims the channel once the callback told it the result
TakeChannel ==
    /\ auth.alive
    /\ auth.started
    /\ calls # <<>>
    /\ auth.channel_ # Null
    /\ Commit(takeChannel(In(World, "takeChannel")))
    /\ last_event' = [name |-> "takeChannel", state |-> auth.state_, arg |-> "none",
                     all |-> {}, version |-> <<>>]
    /\ UNCHANGED rvars

\* the owner destroys the authenticator
Destroy ==
    /\ auth.alive
    /\ Commit(Authenticator_destroy(In(World, "destroy")))
    /\ last_event' = [name |-> "destroy", state |-> auth.state_, arg |-> "none",
                      all |-> {}, version |-> <<>>]
    /\ UNCHANGED rvars

(***************************************************************************)
(* Actions of the relay session                                            *)
(***************************************************************************)
RCommit(rw) ==
    /\ relay' = rw.r
    /\ socks' = rw.socks
    /\ ops' = rw.ops
    /\ notified' = rw.notified
    /\ rlog' = rw.rlog

RelayStart ==
    /\ relay.alive
    /\ ~relay.started
    /\ \E delegate \in {Null, "delegate"} :
          RCommit(Session_start([RWorld EXCEPT !.rlog.delegate = delegate], delegate))
    /\ UNCHANGED avars

\* the owner calls stop()
RelayStop ==
    /\ relay.alive
    /\ rlog.stops < MaxStops
    \* rlog.stops counts the calls on a started session; before start() the
    \* call finds delegate_ null and returns
    /\ RCommit(stop([RWorld EXCEPT
                         !.rlog.stops = @ + (IF relay.started THEN 1 ELSE 0)]))
    /\ UNCHANGED avars

\* the owner destroys the session
RelayDestroy ==
    /\ relay.alive
    /\ RCommit(Session_destroy(RWorld))
    /\ UNCHANGED avars

\* the pending read of side i gets k bytes of what the peer sent into buffer_[i]
SocketRead(i) ==
    /\ ops[i].kind = "read" /\ ops[i].phase = "pending"
    /\ \E k \in 1 .. Min(Len(socks[i].incoming), kBufferSize) :
          /\ relay' = [relay EXCEPT !.buffer_[i] =
                          [j \in 1 .. kBufferSize |->
                              IF j <= k THEN socks[i].incoming[j] ELSE @[j]]]
          /\ socks' = [socks EXCEPT ![i].incoming = Drop(@, k)]
          /\ ops' = [ops EXCEPT ![i].phase = "ready", ![i].ec = "ok", ![i].n = k]
    /\ UNCHANGED <<rlog, notified, avars>>

\* the pending read of side i fails: the peer closed or reset the connection
SocketReadError(i) ==
    /\ ops[i].kind = "read" /\ ops[i].phase = "pending"
    /\ \E ec \in {"eof", "connection_reset"} :
          ops' = [ops EXCEPT ![i].phase = "ready", ![i].ec = ec, ![i].n = 0]
    /\ UNCHANGED <<rlog, relay, socks, notified, avars>>

\* the pending write of side i puts all its bytes on the opposite socket
SocketWrite(i) ==
    /\ ops[i].kind = "write" /\ ops[i].phase = "pending"
    /\ socks' = [socks EXCEPT ![OpSocket(i, "write")].written =
                                  @ \o Take(relay.buffer_[i], ops[i].n)]
    /\ ops' = [ops EXCEPT ![i].phase = "ready", ![i].ec = "ok"]
    /\ UNCHANGED <<rlog, relay, notified, avars>>

\* the pending write of side i fails after k of its bytes
SocketWriteError(i) ==
    /\ ops[i].kind = "write" /\ ops[i].phase = "pending"
    /\ \E k \in 0 .. (ops[i].n - 1) :
          /\ socks' = [socks EXCEPT ![OpSocket(i, "write")].written =
                                        @ \o Take(relay.buffer_[i], k)]
          /\ ops' = [ops EXCEPT ![i].phase = "ready", ![i].ec = "connection_reset",
                                ![i].n = k]
    /\ UNCHANGED <<rlog, relay, notified, avars>>

\* the event loop runs the completion handler of side i.  On a destroyed
\* session a handler that touches the session is a use after free: it may do
\* anything; the model lets it either act on the stale fields or do nothing.
RunHandler(i) ==
    /\ ops[i].phase = "ready"
    /\ LET op == ops[i]
           rw == [RWorld EXCEPT !.ops[i] = NoOp]
           ran == IF op.kind = "read"
                  THEN readHandler(rw, i, op.ec, op.n)
                  ELSE writeHandler(rw, i, op.ec)
       IN  IF relay.alive \/ op.ec = "operation_aborted"
           THEN RCommit(ran)
           ELSE \E stale \in BOOLEAN :
                   RCommit([(IF stale THEN ran ELSE rw) EXCEPT !.r.ub = TRUE])
    /\ UNCHANGED avars

RelayNext ==
    \/ RelayStart
    \/ RelayStop
    \/ RelayDestroy
    \/ \E i \in Sides : SocketRead(i)
    \/ \E i \in Sides : SocketReadError(i)
    \/ \E i \in Sides : SocketWrite(i)
    \/ \E i \in Sides : SocketWriteError(i)
    \/ \E i \in Sides : RunHandler(i)

RelaySpec == Init /\ [][RelayNext]_vars

Next ==
    \/ SetPeerPublicKey
    \/ SetIdentify
    \/ SetUserName
    \/ SetPassword
    \/ SetSessionType
    \/ Start
    \/ MessageWritten
    \/ MessageReceived
    \/ Disconnected
    \/ Connected
    \/ TakeChannel
    \/ Destroy

Spec == Init /\ [][Next]_vars


(***************************************************************************)
(* Properties of the authenticator                                         *)
(***************************************************************************)
LastCall == calls[Len(calls)]

\* C1: whatever events the channel has to report, callback_ is invoked at
\* most once.
CallbackAtMostOnce == Len(calls) <= 1

\* the callback has fired while the channel still has a completion to report
CallbackThenEventLeft ==
    /\ Len(calls) = 1
    /\ channel.connected
    /\ channel.pending > 0

SrpOrder == <<"SEND_CLIENT_HELLO", "READ_SERVER_HELLO", "SEND_IDENTIFY",
              "READ_SERVER_KEY_EXCHANGE", "SEND_CLIENT_KEY_EXCHANGE",
              "READ_SESSION_CHALLENGE", "SEND_SESSION_RESPONSE", "FINISHED">>

SentTypes == [k \in 1 .. Len(sent) |-> sent[k].msg.type]

\* C2: with SRP identity SUCCESS is reported only from the write completion
\* met in SEND_SESSION_RESPONSE, after state_ went through all the states of
\* the SRP handshake in order and the four client messages were sent in order.
SrpSuccessInOrder ==
    \A k \in 1 .. Len(calls) :
        (calls[k].code = "SUCCESS" /\ auth.identify_ = IDENTIFY_SRP) =>
            /\ calls[k].from = [name |-> "onMessageWritten",
                                state |-> "SEND_SESSION_RESPONSE"]
            /\ trace = SrpOrder
            /\ SentTypes = <<"ClientHello", "SrpIdentify", "SrpClientKeyExchange",
                             "SessionResponse">>

SrpSuccess ==
    /\ auth.identify_ = IDENTIFY_SRP
    /\ Len(calls) = 1
    /\ LastCall.code = "SUCCESS"

\* C3: a SrpServerKeyExchange that fails any validation ends the handshake:
\* callback with a code other than SUCCESS, channel paused, listener removed.
ServerKeyExchangeFailureEnds ==
    (/\ last_event.name = "onMessageReceived"
     /\ last_event.state = "READ_SERVER_KEY_EXCHANGE"
     /\ last_event.arg # "none")
    => (/\ Len(calls) = 1
        /\ LastCall.code # "SUCCESS"
        /\ channel.paused
        /\ channel.listener = Null)

\* C4: a disconnect ends the handshake with ACCESS_DENIED iff its reason is
\* access denied, with NETWORK_ERROR otherwise.
DisconnectResult ==
    last_event.name = "onDisconnected" =>
        /\ Len(calls) = 1
        /\ LastCall.from.name = "onDisconnected"
        /\ LastCall.code = (IF last_event.arg = "ACCESS_DENIED" THEN "ACCESS_DENIED"
                                                               ELSE "NETWORK_ERROR")

AccessDeniedAfterKeyExchange ==
    /\ last_event.name = "onDisconnected"
    /\ last_event.state = "READ_SESSION_CHALLENGE"
    /\ last_event.arg = "ACCESS_DENIED"
    /\ auth.identify_ = IDENTIFY_SRP

\* C5: whenever callback_ runs the channel is already paused, has no listener,
\* is still held by the authenticator, and carries the encryptor and decryptor
\* it has now.
CallbackSeesQuiescedChannel ==
    \A k \in 1 .. Len(calls) :
        /\ calls[k].paused
        /\ calls[k].listener = Null
        /\ calls[k].channel_ # Null
        /\ calls[k].encryptor = channel.encryptor
        /\ calls[k].decryptor = channel.decryptor

FailureWithKeysInstalled ==
    /\ Len(calls) = 1
    /\ LastCall.code = "SESSION_DENIED"
    /\ LastCall.encryptor # NoCipher
    /\ channel.paused
    /\ channel.listener = Null

(***************************************************************************)
(* Properties of the relay session                                         *)
(***************************************************************************)
Other(i) == (i + 1) % 2

IsPrefix(p, q) == Len(p) <= Len(q) /\ p = Take(q, Len(p))

\* C6: what has been written to the socket opposite to side i is a prefix of
\* what was read from side i, and a write in progress carries exactly the
\* bytes read last.
ForwardsInOrder ==
    \A i \in Sides :
        /\ IsPrefix(socks[Other(i)].written, rlog.read[i])
        /\ (ops[i].kind = "write" /\ ops[i].phase = "pending") =>
              socks[Other(i)].written \o Take(relay.buffer_[i], ops[i].n) = rlog.read[i]

BothStreamsForwarded ==
    \A i \in Sides :
        /\ rlog.read[i] = Stream(i)
        /\ socks[Other(i)].written = Stream(i)

\* C7: once a started session has terminated, by an error or by stop(), both
\* sockets have been cancelled and closed, with or without a delegate.
TerminationClosesSockets ==
    (/\ relay.started
     /\ relay.alive
     /\ (rlog.errors > 0 \/ rlog.stops > 0))
    => \A i \in Sides : /\ ~socks[i].open
                        /\ socks[i].cancels > 0
                        /\ socks[i].closes > 0

\* C8: the delegate is notified at most once, and never after the owner
\* called stop().
NotifiedAtMostOnce ==
    [][notified' # notified =>
          (notified = 0 /\ notified' = 1 /\ rlog.stops = 0)]_vars

TwoErrorsOneNotification ==
    /\ rlog.errors = 2
    /\ notified = 1

\* C9: stop() on a session that was already stopped, by stop() or by an
\* error, changes nothing.
StopIdempotent ==
    [][(/\ rlog'.stops = rlog.stops + 1
        /\ (rlog.stops > 0 \/ rlog.errors > 0))
       => UNCHANGED <<relay, socks, ops, notified>>]_vars

StoppedTwice ==
    /\ rlog.stops = 2
    /\ rlog.delegate # Null
    /\ \A i \in Sides : socks[i].closes = 1

TotalRead == Len(rlog.read[0]) + Len(rlog.read[1])

AnonymousOrder == <<"SEND_CLIENT_HELLO", "READ_SERVER_HELLO", "READ_SESSION_CHALLENGE",
                    "SEND_SESSION_RESPONSE", "FINISHED">>

\* C11: with anonymous identity state_ goes from READ_SERVER_HELLO to
\* READ_SESSION_CHALLENGE with nothing sent in between, never enters
\* SEND_IDENTIFY, READ_SERVER_KEY_EXCHANGE or SEND_CLIENT_KEY_EXCHANGE, and
\* the messages sent are the ClientHello and then, once the challenge was
\* accepted, the SessionResponse.
AnonymousSkipsSrp ==
    (auth.started /\ auth.identify_ = IDENTIFY_ANONYMOUS) =>
        /\ IsPrefix(trace, AnonymousOrder)
        /\ IsPrefix(SentTypes, <<"ClientHello", "SessionResponse">>)
        /\ (Len(sent) = 2) <=> (Len(trace) >= 4)

AnonymousSuccess ==
    /\ auth.identify_ = IDENTIFY_ANONYMOUS
    /\ Len(calls) = 1
    /\ calls[1].code = "SUCCESS"
    /\ trace = AnonymousOrder

\* C12: once start() was called with anonymous identity and no pinned key,
\* the callback has been invoked from start() with UNKNOWN_ERROR, it is the
\* only result, and nothing was sent on the channel.
AnonymousWithoutKeyRefused ==
    (/\ auth.started
     /\ auth.identify_ = IDENTIFY_ANONYMOUS
     /\ auth.peer_public_key_ = Empty)
    => /\ Len(calls) = 1
       /\ calls[1].code = "UNKNOWN_ERROR"
       /\ calls[1].from.name = "start"
       /\ sent = <<>>

AnonymousWithoutKeyStarted ==
    /\ auth.started
    /\ auth.identify_ = IDENTIFY_ANONYMOUS
    /\ auth.peer_public_key_ = Empty
    /\ auth.channel_ = Null
    /\ Len(calls) = 1

\* the handler that ran last is onMessageReceived, entered in the given state
\* with a buffer that parsed
Received(state) ==
    /\ last_event.name = "onMessageReceived"
    /\ last_event.state = state
    /\ "parse" \notin last_event.all

\* C13: right after a parseable SessionChallenge was handled in
\* READ_SESSION_CHALLENGE: when it offers none of the requested session types
\* the result is SESSION_DENIED, no SessionResponse was sent and peer_version_
\* is still the default; otherwise peer_version_ is the version of the
\* challenge and the message sent last is a SessionResponse with the
\* requested session type.
SessionChallengeHandled ==
    Received("READ_SESSION_CHALLENGE") =>
        IF "session_type" \in last_event.all
        THEN /\ Len(calls) = 1
             /\ calls[1].code = "SESSION_DENIED"
             /\ \A k \in 1 .. Len(sent) : sent[k].msg.type # "SessionResponse"
             /\ auth.peer_version_ = <<0, 0, 0>>
             /\ auth.state_ = "READ_SESSION_CHALLENGE"
        ELSE /\ calls = <<>>
             /\ auth.peer_version_ = last_event.version
             /\ sent # <<>>
             /\ sent[Len(sent)].msg = [type |-> "SessionResponse",
                                       session_type |-> auth.session_type_]
             /\ Len(SelectSeq(sent, LAMBDA m : m.msg.type = "SessionResponse")) = 1
             /\ auth.state_ = "SEND_SESSION_RESPONSE"

SessionDeniedWithVersion ==
    /\ Received("READ_SESSION_CHALLENGE")
    /\ "session_type" \in last_event.all
    /\ last_event.version = <<2, 1, 0>>
    /\ auth.session_type_ # {}

PinnedPairs == {kSrpNgPair_4096, kSrpNgPair_6144, kSrpNgPair_8192}

\* C14: right after a parseable SrpServerKeyExchange whose (N, g) is not a
\* pinned pair was handled, the result is PROTOCOL_ERROR and the channel has
\* no listener; a result reported from READ_SERVER_KEY_EXCHANGE leaves the
\* ClientHello and the SrpIdentify the only messages ever sent; and an
\* SrpClientKeyExchange is sent only with a pinned pair stored.
OnlyPinnedGroupAccepted ==
    /\ (Received("READ_SERVER_KEY_EXCHANGE") /\ "group" \in last_event.all) =>
           /\ Len(calls) = 1
           /\ calls[1].code = "PROTOCOL_ERROR"
           /\ channel.listener = Null
    /\ (calls # <<>> /\ calls[1].state = "READ_SERVER_KEY_EXCHANGE") =>
           SentTypes = <<"ClientHello", "SrpIdentify">>
    /\ (\E k \in 1 .. Len(sent) : sent[k].msg.type = "SrpClientKeyExchange") =>
           <<auth.N_, auth.g_>> \in PinnedPairs

UnpinnedGroupOnly ==
    /\ Received("READ_SERVER_KEY_EXCHANGE")
    /\ last_event.all = {"group"}

\* C15: a step that handles a parseable SrpServerKeyExchange with a salt of
\* less than 64 bytes or a B of less than 128 bytes, whatever its other
\* fields are, reports PROTOCOL_ERROR, leaves every member of the
\* authenticator (N_, g_, s_, B_, a_, A_, both ivs, session_key_) and the
\* ciphers of the channel as they were, and sends nothing.
ShortSaltOrBRefused ==
    [][(/\ last_event'.name = "onMessageReceived"
        /\ last_event'.state = "READ_SERVER_KEY_EXCHANGE"
        /\ last_event'.all \cap {"salt_size", "B_size"} # {})
       => /\ calls' = Append(calls, calls'[Len(calls')])
          /\ calls'[Len(calls')].code = "PROTOCOL_ERROR"
          /\ auth' = auth
          /\ channel'.encryptor = channel.encryptor
          /\ channel'.decryptor = channel.decryptor
          /\ channel'.listener = Null
          /\ sent' = sent]_vars

\* a short salt in a message with a pinned group, handled while the key of
\* the pinned public key is installed
ShortSaltPinnedGroup ==
    /\ Received("READ_SERVER_KEY_EXCHANGE")
    /\ last_event.all = {"salt_size"}
    /\ auth.session_key_ # Empty
    /\ channel.encryptor # NoCipher
    /\ calls # <<>>

\* the handler that ran last is onMessageReceived, entered in
\* READ_SERVER_HELLO
ReceivedInServerHello ==
    /\ last_event.name = "onMessageReceived"
    /\ last_event.state = "READ_SERVER_HELLO"

\* C16: right after a buffer that does not parse, or a ServerHello whose
\* encryption is neither AES256_GCM nor CHACHA20_POLY1305, was handled in
\* READ_SERVER_HELLO the result is PROTOCOL_ERROR and the channel has no
\* listener; a result reported from READ_SERVER_HELLO with PROTOCOL_ERROR
\* leaves the channel without encryptor and decryptor and the ClientHello the
\* only message ever sent; and state_ leaves READ_SERVER_HELLO only with one
\* of the two ciphers stored.
OnlyOneCipherAccepted ==
    /\ (ReceivedInServerHello /\ last_event.all \cap {"parse", "cipher"} # {}) =>
           /\ Len(calls) = 1
           /\ calls[1].code = "PROTOCOL_ERROR"
           /\ calls[1].state = "READ_SERVER_HELLO"
           /\ channel.listener = Null
    /\ (/\ calls # <<>>
        /\ calls[1].state = "READ_SERVER_HELLO"
        /\ calls[1].code = "PROTOCOL_ERROR") =>
           /\ channel.encryptor = NoCipher
           /\ channel.decryptor = NoCipher
           /\ SentTypes = <<"ClientHello">>
           /\ auth.state_ = "READ_SERVER_HELLO"
    /\ Len(trace) >= 3 =>
           auth.encryption_ \in {ENCRYPTION_AES256_GCM, ENCRYPTION_CHACHA20_POLY1305}

\* a ServerHello naming both ciphers, with the iv the pinned key calls for
BothCiphersRefused ==
    /\ ReceivedInServerHello
    /\ last_event.all = {"cipher"}
    /\ auth.encryption_ = ENCRYPTION_BOTH
    /\ auth.session_key_ # Empty

\* C17: right after a parseable ServerHello naming a cipher that the
\* ClientHello did not advertise was handled, the result is PROTOCOL_ERROR;
\* and state_ leaves READ_SERVER_HELLO only with an advertised cipher stored.
AcceptedCipherWasAdvertised ==
    /\ (/\ Received("READ_SERVER_HELLO")
        /\ auth.encryption_ \notin sent[1].msg.encryption) =>
           /\ Len(calls) = 1
           /\ calls[1].code = "PROTOCOL_ERROR"
    /\ Len(trace) >= 3 => auth.encryption_ \in sent[1].msg.encryption

\* the ClientHello carried an iv
ClientSentIv == sent # <<>> /\ sent[1].msg.iv # Empty

\* right after a parseable ServerHello was handled whose iv is present where
\* the ClientHello had none, or absent where it had one: PROTOCOL_ERROR and
\* neither encryptor nor decryptor on the channel
IvMismatchRefused ==
    (Received("READ_SERVER_HELLO") /\ "iv_presence" \in last_event.all) =>
        /\ Len(calls) = 1
        /\ calls[1].code = "PROTOCOL_ERROR"
        /\ channel.encryptor = NoCipher
        /\ channel.decryptor = NoCipher

\* C18 as stated: a mismatch of iv presence is refused, and right after a
\* ServerHello with one of the two ciphers and an iv was handled, the
\* ClientHello having carried one, encryptor and decryptor are installed.
IvPresenceDecides ==
    /\ IvMismatchRefused
    /\ (/\ Received("READ_SERVER_HELLO")
        /\ last_event.all \cap {"iv_presence", "cipher"} = {}
        /\ ClientSentIv) =>
           /\ channel.encryptor # NoCipher
           /\ channel.decryptor # NoCipher

\* C18: a mismatch of iv presence is refused, and right after a ServerHello
\* with one of the two ciphers and an iv was handled, the ClientHello having
\* carried one: when the server's iv has the size the cipher takes, encryptor
\* and decryptor are installed with session_key_ and the respective iv and no
\* result is reported; when it has not, UNKNOWN_ERROR is reported and
\* neither is installed.
IvPresenceDecidesCreationPermitting ==
    /\ IvMismatchRefused
    /\ (/\ Received("READ_SERVER_HELLO")
        /\ last_event.all \cap {"iv_presence", "cipher"} = {}
        /\ ClientSentIv) =>
           IF "iv_size" \notin last_event.all
           THEN /\ calls = <<>>
                /\ channel.encryptor = [cipher |-> auth.encryption_,
                                        key |-> auth.session_key_,
                                        iv |-> auth.encrypt_iv_]
                /\ channel.decryptor = [cipher |-> auth.encryption_,
                                        key |-> auth.session_key_,
                                        iv |-> auth.decrypt_iv_]
                /\ auth.session_key_ # Empty
                /\ auth.decrypt_iv_ # Empty
           ELSE /\ Len(calls) = 1
                /\ calls[1].code = "UNKNOWN_ERROR"
                /\ channel.encryptor = NoCipher
                /\ channel.decryptor = NoCipher

\* the ciphers of the pinned key are on the channel right after ServerHello
InstalledOnServerHello ==
    /\ Received("READ_SERVER_HELLO")
    /\ last_event.all = {}
    /\ ClientSentIv
    /\ channel.encryptor # NoCipher
    /\ channel.decryptor # NoCipher
    /\ auth.identify_ = IDENTIFY_SRP

\* the key the configuration calls for: E goes in iff a public key is pinned,
\* K iff the identity is SRP
KeyOfConfiguration ==
    CASE auth.identify_ = IDENTIFY_ANONYMOUS /\ auth.peer_public_key_ # Empty ->
            Hash(EcdhSecret)
      [] auth.identify_ = IDENTIFY_SRP /\ auth.peer_public_key_ = Empty ->
            Hash(SrpKey)
      [] auth.identify_ = IDENTIFY_SRP /\ auth.peer_public_key_ # Empty ->
            Hash(Hash(EcdhSecret) \o SrpKey)
      [] OTHER -> Empty

\* C19: once SUCCESS is reported, the encryptor and the decryptor on the
\* channel hold H(E) for anonymous identity with a pinned key, H(K) for SRP
\* without one and H(H(E) || K) for SRP with one, and these three keys differ
\* from each other.
SuccessInstallsKeyOfConfiguration ==
    /\ (calls # <<>> /\ LastCall.code = "SUCCESS") =>
           /\ KeyOfConfiguration # Empty
           /\ channel.encryptor.key = KeyOfConfiguration
           /\ channel.decryptor.key = KeyOfConfiguration
           /\ LastCall.encryptor.key = KeyOfConfiguration
           /\ LastCall.decryptor.key = KeyOfConfiguration
    /\ Hash(EcdhSecret) # Hash(SrpKey)
    /\ Hash(SrpKey) # Hash(Hash(EcdhSecret) \o SrpKey)
    /\ Hash(EcdhSecret) # Hash(Hash(EcdhSecret) \o SrpKey)

SrpPinnedSuccess ==
    /\ calls # <<>>
    /\ LastCall.code = "SUCCESS"
    /\ auth.identify_ = IDENTIFY_SRP
    /\ auth.peer_public_key_ # Empty
    /\ channel.encryptor.key = Hash(Hash(EcdhSecret) \o SrpKey)

\* C20: once the callback has been invoked, whatever the result, password()
\* is empty.
PasswordGoneAfterCallback == calls # <<>> => auth.password_ = Empty

\* C21: while the authenticator is destroyed the channel has no event it
\* would dispatch to it, and no step invokes the callback, runs a handler of
\* the authenticator or changes a member of it, whether it was destroyed
\* before the callback, after it, or after it and takeChannel().
NothingAfterDestruction ==
    /\ [](~auth.alive => ~ChListening)
    /\ [][~auth.alive => /\ calls' = calls
                         /\ last_event' = last_event
                         /\ auth' = auth]_vars

\* destroyed after the callback and takeChannel(): the channel lives on,
\* connected, and has a disconnect yet to report to whoever listens
DestroyedAfterTakeChannel ==
    /\ ~auth.alive
    /\ channel.alive
    /\ channel.connected
    /\ Len(calls) = 1
    /\ calls[1].code = "SUCCESS"

\* C22: the channel has an encryptor iff it has a decryptor, both hold the
\* same key, and that key is not empty.
CiphersInstalledTogether ==
    /\ (channel.encryptor = NoCipher) <=> (channel.decryptor = NoCipher)
    /\ channel.encryptor # NoCipher =>
           /\ channel.encryptor.key # Empty
           /\ channel.decryptor.key = channel.encryptor.key
           /\ channel.decryptor.cipher = channel.encryptor.cipher

\* the encryptor could be created and the decryptor could not: neither is
\* on the channel
DecryptorFailedNoneInstalled ==
    /\ Received("READ_SERVER_HELLO")
    /\ last_event.all = {"iv_size"}
    /\ auth.encrypt_iv_ = Iv12
    /\ auth.session_key_ # Empty
    /\ channel.encryptor = NoCipher
    /\ channel.decryptor = NoCipher

\* the key of the channel before the SRP key is mixed in: the one made of the
\* ECDH secret with a pinned key, none without
FirstKey == IF auth.peer_public_key_ # Empty THEN Hash(EcdhSecret) ELSE Empty

\* what each message was sealed with, and the key of the channel in each
\* state of a handshake that has not ended
KeyingByState ==
    /\ \A k \in 1 .. Len(sent) :
          CASE sent[k].msg.type = "ClientHello" -> sent[k].sealed_by = NoCipher
            [] sent[k].msg.type = "SrpIdentify" ->
                  sent[k].sealed_by.key \in {Empty, FirstKey}
            [] sent[k].msg.type = "SrpClientKeyExchange" ->
                  sent[k].sealed_by.key = FirstKey
            [] sent[k].msg.type = "SessionResponse" ->
                  /\ sent[k].sealed_by.key = KeyOfConfiguration
                  /\ sent[k].sealed_by = channel.encryptor
    /\ (last_event.name = "onMessageReceived"
           /\ last_event.state = "READ_SESSION_CHALLENGE") =>
           channel.decryptor.key = KeyOfConfiguration
    /\ (calls = <<>> /\ Len(trace) >= 3) =>
           channel.encryptor.key =
               IF auth.state_ \in {"READ_SESSION_CHALLENGE", "SEND_SESSION_RESPONSE"}
               THEN KeyOfConfiguration
               ELSE FirstKey

\* a step that changes a cipher of the channel is the handling of the
\* ServerHello with a pinned key, which installs the first key on a channel
\* without ciphers, or the write completion of the SrpClientKeyExchange, which
\* installs the final key and sends nothing
InstallationStep ==
    (channel'.encryptor # channel.encryptor \/ channel'.decryptor # channel.decryptor) =>
        \/ /\ last_event'.name = "onMessageReceived"
           /\ last_event'.state = "READ_SERVER_HELLO"
           /\ auth.peer_public_key_ # Empty
           /\ channel.encryptor = NoCipher
           /\ channel'.encryptor.key = Hash(EcdhSecret)
           /\ channel'.decryptor.key = Hash(EcdhSecret)
        \/ /\ last_event'.name = "onMessageWritten"
           /\ last_event'.state = "SEND_CLIENT_KEY_EXCHANGE"
           /\ auth.identify_ = IDENTIFY_SRP
           /\ channel.encryptor.key = FirstKey
           /\ channel'.encryptor.key = KeyOfConfiguration
           /\ channel'.decryptor.key = KeyOfConfiguration
           /\ sent' = sent

\* C23: ciphers are installed only while the ServerHello is handled (with a
\* pinned key) and on the write completion of the SrpClientKeyExchange (with
\* SRP identity); the SrpClientKeyExchange is sealed with the keying before
\* the rotation, the rotation precedes the handling of any SessionChallenge,
\* and the SessionResponse is sealed with the final key.
KeysRotateAtMessageBoundaries ==
    /\ []KeyingByState
    /\ [][InstallationStep]_vars

\* both installations happened: the SrpClientKeyExchange went out under the
\* first key and the SessionResponse under the final one
TwoInstallations ==
    /\ Len(sent) = 4
    /\ sent[3].msg.type = "SrpClientKeyExchange"
    /\ sent[3].sealed_by.key = Hash(EcdhSecret)
    /\ sent[4].msg.type = "SessionResponse"
    /\ sent[4].sealed_by.key = Hash(Hash(EcdhSecret) \o SrpKey)

\* C24: a callback with SUCCESS sees a channel with encryptor and decryptor,
\* made for the cipher the server chose from session_key_ and from
\* encrypt_iv_ and decrypt_iv_ as they are then and remain.
SuccessOnlyWithCiphers ==
    \A k \in 1 .. Len(calls) :
        calls[k].code = "SUCCESS" =>
            /\ calls[k].encryptor # NoCipher
            /\ calls[k].decryptor # NoCipher
            /\ calls[k].encryptor = [cipher |-> auth.encryption_,
                                     key |-> auth.session_key_,
                                     iv |-> auth.encrypt_iv_]
            /\ calls[k].decryptor = [cipher |-> auth.encryption_,
                                     key |-> auth.session_key_,
                                     iv |-> auth.decrypt_iv_]
            /\ channel.encryptor = calls[k].encryptor
            /\ channel.decryptor = calls[k].decryptor

\* SUCCESS without a pinned key: the only installation is the one after the
\* SrpClientKeyExchange
SrpSuccessWithoutPinnedKey ==
    /\ Len(calls) = 1
    /\ calls[1].code = "SUCCESS"
    /\ auth.peer_public_key_ = Empty
    /\ calls[1].encryptor.key = Hash(SrpKey)

\* C25: once the callback has been invoked, state_ is what it was when the
\* callback was invoked and no message has been sent since.
CallbackEndsHandshake ==
    calls # <<>> =>
        /\ auth.state_ = calls[1].state
        /\ Len(sent) = calls[1].sent

SendStates == {"SEND_CLIENT_HELLO", "SEND_IDENTIFY", "SEND_CLIENT_KEY_EXCHANGE",
               "SEND_SESSION_RESPONSE"}
ReadStates == {"READ_SERVER_HELLO", "READ_SERVER_KEY_EXCHANGE", "READ_SESSION_CHALLENGE"}

\* at most one send awaits its completion, none in a READ_* state; no more
\* messages were sent than SEND_* states entered; and onMessageWritten() in a
\* READ_* state returns the world it was given
OneSendPerSendState ==
    /\ channel.pending <= 1
    /\ auth.state_ \in ReadStates => channel.pending = 0
    /\ Len(sent) <= Len(SelectSeq(trace, LAMBDA s : s \in SendStates))
    /\ auth.state_ \in ReadStates => onMessageWritten(World) = World

\* a step that sends, sends one message, with none in flight, and enters a
\* SEND_* state; a step that leaves a SEND_* state is the write completion of
\* the one message in flight
SendThenWaitStep ==
    /\ sent' # sent =>
           /\ Len(sent') = Len(sent) + 1
           /\ channel.pending = 0
           /\ channel'.pending = 1
           /\ Len(trace') = Len(trace) + 1
           /\ auth'.state_ \in SendStates
    /\ (auth.state_ \in SendStates /\ auth'.state_ # auth.state_) =>
           /\ last_event'.name = "onMessageWritten"
           /\ channel.pending = 1
           /\ channel'.pending = 0
           /\ sent' = sent

\* C26: never more than one send in flight: one message per SEND_* state,
\* none in a READ_* state, a SEND_* state is left only on the write
\* completion of its message, and a write completion in a READ_* state
\* changes nothing.
OneSendInFlight ==
    /\ []OneSendPerSendState
    /\ [][SendThenWaitStep]_vars

\* the last message of the SRP handshake is in flight
SessionResponseInFlight ==
    /\ auth.state_ = "SEND_SESSION_RESPONSE"
    /\ channel.pending = 1
    /\ Len(sent) = 4
    /\ calls = <<>>

\* no operation on buffer_[i] was ever started while another was outstanding
NoOverlap == \A i \in Sides : ~rlog.overlap[i]

\* start() leaves one read per side; a read of side i is otherwise armed
\* only by the handler of a write of buffer_[i] that completed without error;
\* and bytes arrive in buffer_[i] only while a read of side i is pending
BackpressureStep ==
    \A i \in Sides :
        /\ (~relay.started /\ relay'.started) =>
               /\ ops[i] = NoOp
               /\ ops'[i].kind = "read"
        /\ (relay.started /\ ops'[i].kind = "read" /\ ops[i].kind # "read") =>
               /\ ops[i].kind = "write"
               /\ ops[i].phase = "ready"
               /\ ops[i].ec = "ok"
        /\ relay'.buffer_[i] # relay.buffer_[i] =>
               /\ ops[i].kind = "read"
               /\ ops[i].phase = "pending"

\* C27: per side at most one operation on the buffer is outstanding, a read
\* or a write; start() arms one read per side, and a new read of side i is
\* armed only by the successful completion of the write of what was read, so
\* that the buffer is not overwritten while its write is outstanding.
RelayBackpressure ==
    /\ []NoOverlap
    /\ [][BackpressureStep]_vars

\* the peer of side 0 has sent more, but no read is armed while the write of
\* the bytes read so far is outstanding
WriteOutstandingDataWaiting ==
    /\ relay.alive
    /\ ops[0].kind = "write"
    /\ ops[0].phase = "pending"
    /\ Len(socks[0].incoming) > 0
    /\ Len(rlog.read[0]) > 0

\* the handler of a completion with operation_aborted only retires the
\* operation: no notification, no error handling and so no stop(), the
\* members of the session, the sockets and the other side's operation as
\* they were, nothing armed; and once the owner has called stop() no step
\* notifies the delegate
AbsorbStep ==
    /\ \A i \in Sides :
          (/\ ops[i].phase = "ready"
           /\ ops[i].ec = "operation_aborted"
           /\ ops'[i] # ops[i]) =>
              /\ ops' = [ops EXCEPT ![i] = NoOp]
              /\ notified' = notified
              /\ rlog'.errors = rlog.errors
              /\ relay' = relay
              /\ socks' = socks
    /\ rlog.stops > 0 => notified' = notified

\* C28: a completion that carries operation_aborted is absorbed: it does not
\* notify, does not call stop(), does not change the counter and arms
\* nothing; so a stop() by the owner is never followed by onSessionFinished.
CancellationAbsorbed == [][AbsorbStep]_vars

\* the owner stopped a session whose side 0 had a write outstanding: all
\* handlers have run, without an error handled and without a notification
StoppedQuietly ==
    /\ relay.alive
    /\ rlog.stops > 0
    /\ rlog.delegate # Null
    /\ rlog.wfail[0]
    /\ rlog.errors = 0
    /\ notified = 0
    /\ \A i \in Sides : ops[i] = NoOp

\* stop() has been called on a session that start() gave a delegate: by the
\* owner, by the handling of an error, or by the destructor
StopWasCalled ==
    /\ rlog.delegate # Null
    /\ rlog.stops > 0 \/ rlog.errors > 0 \/ ~relay.alive

\* C29: a completion handler that runs after stop() was called is dropped,
\* also when its operation had completed without error before: it leaves the
\* counter as it is, starts no operation and does not touch a session that
\* is destroyed.
HandlersDroppedAfterStop ==
    [][\A i \in Sides :
          (StopWasCalled /\ ops[i].phase = "ready" /\ ops'[i] # ops[i]) =>
              /\ relay'.bytes_transferred_ = relay.bytes_transferred_
              /\ ops'[i] = NoOp
              /\ ~relay'.ub]_vars

\* a message that arrives while no send awaits its completion, as do the
\* messages of a peer that answers what it received over a channel that
\* reports the completion first, is handled in a READ_* state; and
\* onConnected() runs only when the channel reports a connection it already
\* had
ConformingStep ==
    /\ (last_event'.name = "onMessageReceived" /\ channel.pending = 0) =>
           auth.state_ \in ReadStates
    /\ last_event'.name = "onConnected" => channel.connected

\* C30: with a peer that sends a message only in answer to the client message
\* before it, and a channel that reports the write completion before the
\* answer and no connection on a connected channel, onMessageReceived() runs
\* only in READ_SERVER_HELLO, READ_SERVER_KEY_EXCHANGE or
\* READ_SESSION_CHALLENGE and onConnected() does not run.
NotReachedUnreachable == [][ConformingStep]_vars

\* the last message of a conforming peer was handled in its state
ChallengeOfConformingPeer ==
    /\ Received("READ_SESSION_CHALLENGE")
    /\ last_event.all = {}
    /\ auth.identify_ = IDENTIFY_SRP
    /\ auth.state_ = "SEND_SESSION_RESPONSE"
    /\ trace = Take(SrpOrder, 7)


====
